---- MODULE Spec2Model ----
(***************************************************************************)
(* Verification model of described-functions: the Tool invocation pipeline *)
(* (ToolClass / makeTool), its cache key derivation and its stores.        *)
(*                                                                         *)
(* Two ToolClass implementations live in the repository and both are       *)
(* modelled: the TypeBox one ("typebox", the current src/tool.ts), under   *)
(* the specification Spec, and the earlier Ajv one ("ajv"), under SpecAjv. *)
(***************************************************************************)
EXTENDS Integers, Sequences, FiniteSets, TLC

VARIABLES tool, stores, now, inv

vars == <<tool, stores, now, inv>>

(***************************************************************************)
(* Bounds of the model.                                                    *)
(***************************************************************************)
MaxInv == 2
MaxClock == 2
MaxTTL == 2

Slots == 1..MaxInv

(***************************************************************************)
(* JavaScript values.  Every value has the same record shape so that any   *)
(* two values can be compared: t is the type tag, s the text of a scalar,  *)
(* f the insertion-ordered list of an object's fields.                     *)
(***************************************************************************)
Str(s) == [t |-> "str", s |-> s, f |-> <<>>]
Num(s) == [t |-> "num", s |-> s, f |-> <<>>]
Obj(f) == [t |-> "obj", s |-> "", f |-> f]
Undefined == [t |-> "undef", s |-> "", f |-> <<>>]
Null == [t |-> "null", s |-> "", f |-> <<>>]
Field(k, t, s) == [k |-> k, t |-> t, s |-> s]

\* JavaScript truthiness, as used by `if (cachedResult)`.
Truthy(v) ==
  CASE v.t = "undef" -> FALSE
    [] v.t = "null" -> FALSE
    [] v.t = "str" -> v.s # ""
    [] v.t = "num" -> v.s # "0"
    [] OTHER -> TRUE

Keys(v) == {v.f[i].k : i \in 1..Len(v.f)}
FieldOf(v, k) == v.f[CHOOSE i \in 1..Len(v.f) : v.f[i].k = k]

\* Structural equality of two values: same type, same scalar, same fields
\* whatever their insertion order.
StructEq(a, b) ==
  /\ a.t = b.t
  /\ a.s = b.s
  /\ Keys(a) = Keys(b)
  /\ \A k \in Keys(a) : FieldOf(a, k).t = FieldOf(b, k).t /\ FieldOf(a, k).s = FieldOf(b, k).s

(***************************************************************************)
(* The inputs and dispatch results the model draws from.                   *)
(***************************************************************************)
InAlice == Obj(<<Field("name", "str", "Alice"), Field("age", "num", "30")>>)
\* The same object as InAlice, its properties assigned in the other order.
InAliceSwapped == Obj(<<Field("age", "num", "30"), Field("name", "str", "Alice")>>)
InEmpty == Obj(<<>>)
InBob == Obj(<<Field("name", "str", "Bob")>>)
Inputs == {InAlice, InAliceSwapped, InEmpty}

ResGreeting == Obj(<<Field("greeting", "str", "Hello, Alice")>>)
ResEmptyText == Str("")
Results == {ResGreeting, ResEmptyText}

(***************************************************************************)
(* Schemas and their validators.                                           *)
(***************************************************************************)
ObjectSchema(props, required) ==
  [kind |-> "object", props |-> props, required |-> required, additional |-> FALSE]
StringSchema == [kind |-> "string", props |-> {}, required |-> {}, additional |-> TRUE]

\* The greet schemas of the test programs.
GreetInputSchema == ObjectSchema({<<"name", "str">>, <<"age", "num">>}, {"name"})
GreetResultSchema == ObjectSchema({<<"greeting", "str">>}, {"greeting"})
ResultSchemas == {GreetResultSchema, StringSchema}

PropNames(schema) == {p[1] : p \in schema.props}
PropType(schema, k) == (CHOOSE p \in schema.props : p[1] = k)[2]

\* The violations a compiled schema reports for a value, as a set of
\* <<path, message>>: TypeCheck.Errors(value).
SchemaErrors(schema, v) ==
  IF schema.kind = "string"
    THEN IF v.t = "str" THEN {} ELSE {<<"", "Expected string">>}
    ELSE IF v.t # "obj"
      THEN {<<"", "Expected object">>}
      ELSE {<<k, "Expected required property">> : k \in schema.required \ Keys(v)}
           \cup {<<k, "Unexpected property">> :
                   k \in IF schema.additional THEN {} ELSE Keys(v) \ PropNames(schema)}
           \cup {<<k, "Expected type">> :
                   k \in {x \in PropNames(schema) \cap Keys(v) :
                            FieldOf(v, x).t # PropType(schema, x)}}
           \cup {<<k, "Expected type">> : k \in schema.required \ Keys(v)}

Conforms(schema, v) == SchemaErrors(schema, v) = {}

\* A set as a list, in some fixed order.
RECURSIVE SetToSeq(_)
SetToSeq(S) ==
  IF S = {} THEN <<>>
  ELSE LET x == CHOOSE y \in S : TRUE IN <<x>> \o SetToSeq(S \ {x})

\* The constraints of a schema that a value violates, one entry each.
Violations(schema, v) ==
  IF schema.kind = "string" \/ v.t # "obj"
    THEN SchemaErrors(schema, v)
    ELSE {<<k, "Expected required property">> : k \in schema.required \ Keys(v)}
         \cup {e \in SchemaErrors(schema, v) :
                 e[2] # "Expected required property" /\ e[1] \in Keys(v)}

\* TypeCheck.Errors(value) as the iterator yields it: the missing required
\* properties, the unexpected ones, then what the visit of each property
\* reports.
Errors(schema, v) ==
  LET all == SchemaErrors(schema, v)
      required == {e \in all : e[2] = "Expected required property"}
      unexpected == {e \in all : e[2] = "Unexpected property"}
  IN SetToSeq(required) \o SetToSeq(unexpected)
       \o SetToSeq(all \ (required \cup unexpected))

\* errors.First() takes the first error off the iterator; [...errors], made
\* from the same iterator afterwards, holds the ones that follow it.
SpreadAfterFirst(errors) == IF errors = <<>> THEN <<>> ELSE Tail(errors)

\* validate.errors of a default Ajv instance (allErrors off): the first
\* violation only.
AjvErrors(schema, v) ==
  IF Violations(schema, v) = {} THEN <<>> ELSE <<Head(SetToSeq(Violations(schema, v)))>>

(***************************************************************************)
(* JSON text, as a list of tokens.  The stores keep values serialised and  *)
(* parse them back on read; the key factory hashes the serialised input.   *)
(***************************************************************************)
RECURSIVE FieldTokens(_)
FieldTokens(fs) ==
  IF fs = <<>> THEN <<>>
  ELSE <<fs[1].k, fs[1].t, fs[1].s>> \o FieldTokens(Tail(fs))

JSONStringify(v) ==
  CASE v.t = "obj" -> <<"{">> \o FieldTokens(v.f) \o <<"}">>
    [] v.t = "null" -> <<"null">>
    [] OTHER -> <<v.t, v.s>>

RECURSIVE ParseFields(_)
ParseFields(toks) ==
  IF Len(toks) < 3 THEN <<>>
  ELSE <<Field(toks[1], toks[2], toks[3])>> \o ParseFields(SubSeq(toks, 4, Len(toks)))

JSONParse(toks) ==
  CASE toks[1] = "{" -> Obj(ParseFields(SubSeq(toks, 2, Len(toks) - 1)))
    [] toks[1] = "null" -> Null
    [] toks[1] = "str" -> Str(toks[2])
    [] OTHER -> Num(toks[2])

\* SHA-1 of a text, taken as collision-free: the digest stands for its text.
Sha1Hex(text) == <<"sha1">> \o text

\* hashObjectSHA1: the digest of the serialised object, whose fields are
\* written in insertion order.
hashObjectSHA1(obj) == Sha1Hex(JSONStringify(obj))

\* ToolClass.keyFactory (typebox): `${prefix}:${await hashObjectSHA1(input)}`.
keyFactory(prefix, input) == [ns |-> prefix, h |-> hashObjectSHA1(input)]

\* DEFAULT_CACHE_KEY_FACTORY (ajv): the hash is interpolated without being
\* awaited, so the text after the prefix is that of the pending promise.
DEFAULT_CACHE_KEY_FACTORY(prefix, input) == [ns |-> prefix, h |-> <<"[object Promise]">>]

NoKey == [ns |-> "", h |-> <<>>]

(***************************************************************************)
(* Stores.  "keyv" is the Keyv instance a typebox tool creates as its      *)
(* default and "keyv2" the one a second tool instance creates, "memory"    *)
(* the process-wide map behind every MemoryCache (ajv), "ext" a store the  *)
(* caller passes in options.cache.                                         *)
(***************************************************************************)
StoreIds == {"keyv", "keyv2", "memory", "ext"}
KeyvIds == {"keyv", "keyv2"}
EmptyStore == <<>>

Put(store, key, entry) ==
  [k \in DOMAIN store \cup {key} |-> IF k = key THEN entry ELSE store[k]]
Remove(store, key) == [k \in DOMAIN store \ {key} |-> store[k]]

\* A MemoryCache.get that still returns the value at the instant it expires.
MemoryCacheGetAtExpiry(store, key, t) ==
  IF key \in DOMAIN store /\ store[key].expiresAt >= t
    THEN JSONParse(store[key].value)
    ELSE Null

\* MemoryCache.get: the parsed value while expiresAt is in the future, else null.
MemoryCacheGet(store, key, t) ==
  IF key \in DOMAIN store /\ store[key].expiresAt > t
    THEN JSONParse(store[key].value)
    ELSE Null

\* A Keyv.get that does not look at the expiry.
KeyvGetNoExpiry(store, key, t) ==
  IF key \in DOMAIN store THEN JSONParse(store[key].value) ELSE Undefined

\* Keyv.get: undefined for a missing key and for an entry whose expiry has passed.
KeyvGet(store, key, t) ==
  IF key \in DOMAIN store /\ ~(t > store[key].expiresAt)
    THEN JSONParse(store[key].value)
    ELSE Undefined

\* Keyv.get removes the entry it finds expired.
KeyvAfterGet(store, key, t) ==
  IF key \in DOMAIN store /\ t > store[key].expiresAt THEN Remove(store, key) ELSE store

StoreGet(id, store, key, t) ==
  IF id \in KeyvIds THEN KeyvGet(store, key, t) ELSE MemoryCacheGet(store, key, t)

StoreAfterGet(id, store, key, t) ==
  IF id \in KeyvIds THEN KeyvAfterGet(store, key, t) ELSE store

\* A set that keeps the entry a key already has.
StoreSetIfAbsent(store, key, value, ttl, t) ==
  IF key \in DOMAIN store THEN store
  ELSE Put(store, key, [value |-> JSONStringify(value), expiresAt |-> t + ttl])

\* set(key, value, ttl) of every store: the serialised value and its expiry.
StoreSet(store, key, value, ttl, t) ==
  Put(store, key, [value |-> JSONStringify(value), expiresAt |-> t + ttl])

\* Only a store supplied by the caller can reject a call.
CanFail(id) == id = "ext"

(***************************************************************************)
(* Descriptors (DescribedFunc) and the Tool built from one.                *)
(***************************************************************************)
\* The TTL a Descriptor can carry in `cache`, in clock ticks; 0 is "unset".
CacheTTL == 1

\* httpEndpoint: the query parameters of its url, in order, and its method
\* ("none" when the Descriptor gives no method).
Param(k, v) == [k |-> k, v |-> v]
Endpoint(query, method) == [query |-> query, method |-> method]
PlainEndpoint == Endpoint(<<>>, "none")

Descriptors ==
  [name : {"greet"},
   intents : {"resource", "action", "unset"},
   cache : {0, CacheTTL},
   hasFunc : BOOLEAN,
   hasHttp : BOOLEAN,
   validateInput : BOOLEAN,
   validateResult : BOOLEAN,
   inputSchema : {GreetInputSchema},
   resultSchema : ResultSchemas,
   httpEndpoint : {PlainEndpoint}]

\* The configurations each entry point takes: ValidateOptions belong to the
\* typebox ToolClass constructor only; makeTool and the ajv code take a plain
\* DescribedFunc, where both sides are validated.
Configs(impl, viaMakeTool) ==
  {d \in Descriptors :
     (impl = "ajv" \/ viaMakeTool) => (d.validateInput /\ d.validateResult)}

NoConfig ==
  [name |-> "", intents |-> "unset", cache |-> 0, hasFunc |-> FALSE, hasHttp |-> FALSE,
   validateInput |-> TRUE, validateResult |-> TRUE,
   inputSchema |-> GreetInputSchema, resultSchema |-> StringSchema,
   httpEndpoint |-> PlainEndpoint]

NoTool ==
  [state |-> "none", impl |-> "typebox", config |-> NoConfig,
   callFunc |-> "none", compiledIn |-> FALSE, compiledOut |-> FALSE,
   cacheField |-> "none", compiles |-> 0, error |-> "none"]

\* The check at the head of the typebox constructor.
ConfigRejectedTypebox(d) == (~d.hasFunc /\ ~d.hasHttp) \/ (d.hasFunc /\ d.hasHttp)

\* The check at the head of the ajv constructor.
ConfigRejectedAjv(d) == ~d.hasFunc /\ ~d.hasHttp

ConfigRejected(impl, d) ==
  IF impl = "typebox" THEN ConfigRejectedTypebox(d) ELSE ConfigRejectedAjv(d)

\* A constructor that compiles the input schema whatever validateInput says.
CompilesInputAlways(impl, d) == impl = "typebox"

\* Which side is compiled by the constructor.
CompilesInput(impl, d) == impl = "typebox" /\ d.validateInput
CompilesResult(impl, d) == impl = "typebox" /\ d.validateResult

\* What the tool's `cache` property holds after construction: the Keyv
\* instance of the field initialiser, or, after makeTool's Object.assign of a
\* config that has a `cache` TTL, that number.
CacheFieldAfter(impl, viaMakeTool, d) ==
  IF impl = "ajv" THEN "none"
  ELSE IF viaMakeTool /\ d.cache # 0 THEN "number"
  ELSE "keyv"

\* new ToolClass(config), or makeTool(config).
BuiltTool(impl, viaMakeTool, d) ==
  [state |-> "built", impl |-> impl, config |-> d,
   callFunc |-> IF d.hasFunc THEN "func" ELSE "http",
   compiledIn |-> CompilesInput(impl, d),
   compiledOut |-> CompilesResult(impl, d),
   cacheField |-> CacheFieldAfter(impl, viaMakeTool, d),
   compiles |-> (IF CompilesInput(impl, d) THEN 1 ELSE 0)
                + (IF CompilesResult(impl, d) THEN 1 ELSE 0),
   error |-> "none"]

\* The constructor throws: no Tool comes to exist for the Descriptor.
FailedTool(impl, d) ==
  [NoTool EXCEPT !.state = "failed", !.impl = impl, !.config = d,
                 !.error = "ConfigurationError"]

Construct(viaMakeTool, d) ==
  /\ tool.state = "none"
  /\ d \in Configs(tool.impl, viaMakeTool)
  /\ tool' = IF ConfigRejected(tool.impl, d)
               THEN FailedTool(tool.impl, d)
               ELSE BuiltTool(tool.impl, viaMakeTool, d)
  /\ UNCHANGED <<stores, now, inv>>

(***************************************************************************)
(* Outcomes of an invocation and of a dispatch.                            *)
(***************************************************************************)
\* A response body: its text, and the tokens of that text when it is JSON.
EmptyBody == [text |-> "", tokens |-> <<>>]
GreetingBody ==
  [text |-> "{\"greeting\":\"Hello, Alice\"}", tokens |-> JSONStringify(ResGreeting)]
Bodies == {EmptyBody, GreetingBody}

\* A fetch Response: status line, Content-Type header ("none": no header), body.
Response(status, statusText, contentType, body) ==
  [status |-> status, statusText |-> statusText, contentType |-> contentType, body |-> body]
NoResponse == Response(0, "", "none", EmptyBody)

\* response.ok
ResponseOk(response) == response.status \in 200..299

NoOutcome ==
  [st |-> "none", val |-> Undefined, err |-> "none", side |-> "none", errors |-> <<>>,
   cause |-> NoResponse]
Returned(v) == [NoOutcome EXCEPT !.st = "ok", !.val = v]
Thrown(name, side) == [NoOutcome EXCEPT !.st = "err", !.err = name, !.side = side]
\* new ValidationError(errors, type)
ValidationError(errors, side) ==
  [Thrown("ValidationError", side) EXCEPT !.errors = errors]

\* The responses the HTTP endpoint may give.
\* `typeof data`.
TypeOf(v) ==
  CASE v.t \in {"obj", "null"} -> "object"
    [] v.t = "str" -> "string"
    [] v.t = "num" -> "number"
    [] OTHER -> "undefined"

\* new URLSearchParams(data).entries(): one pair per own property of an
\* object, the value turned into a string; null is read as the text "null",
\* which parses to the one parameter `null=`.
RECURSIVE FieldParams(_)
FieldParams(fs) ==
  IF fs = <<>> THEN <<>> ELSE <<Param(fs[1].k, fs[1].s)>> \o FieldParams(Tail(fs))

URLSearchParams(data) ==
  IF data.t = "null" THEN <<Param("null", "")>> ELSE FieldParams(data.f)

\* The parameters of a query other than those named k.
RECURSIVE WithoutParam(_, _)
WithoutParam(query, k) ==
  IF query = <<>> THEN <<>>
  ELSE (IF query[1].k = k THEN <<>> ELSE <<query[1]>>) \o WithoutParam(Tail(query), k)

\* searchParams.set(k, v): the first parameter named k takes the value and
\* the other ones named k go; with none, the parameter is added at the end.
RECURSIVE searchParamsSet(_, _, _)
searchParamsSet(query, k, v) ==
  IF query = <<>> THEN <<Param(k, v)>>
  ELSE IF query[1].k = k THEN <<Param(k, v)>> \o WithoutParam(Tail(query), k)
  ELSE <<query[1]>> \o searchParamsSet(Tail(query), k, v)

\* The loop `for (const [key, value] of newParams.entries()) set(key, value)`.
RECURSIVE MergeParams(_, _)
MergeParams(query, params) ==
  IF params = <<>> THEN query
  ELSE MergeParams(searchParamsSet(query, params[1].k, params[1].v), Tail(params))

Request(method, query, contentType, body) ==
  [method |-> method, query |-> query, contentType |-> contentType, body |-> body]
NoRequest == Request("none", <<>>, "none", <<>>)

\* makeRequest, up to the Request it hands to fetch.  JSON.stringify gives
\* no text for undefined, and `if (_body)` then sets neither body nor
\* Content-Type.
makeRequestRequest(endpoint, data) ==
  LET method == IF endpoint.method # "none" THEN endpoint.method
                ELSE IF TypeOf(data) = "object" THEN "GET" ELSE "POST"
      body == IF method = "POST" /\ data.t # "undef" THEN JSONStringify(data) ELSE <<>>
      query == IF method = "GET" /\ TypeOf(data) = "object"
                 THEN MergeParams(endpoint.query, URLSearchParams(data))
                 ELSE endpoint.query
  IN Request(method, query, IF body # <<>> THEN "application/json" ELSE "none", body)

Responses ==
  {Response(404, "Not Found", "text/plain", EmptyBody),
   Response(200, "OK", "application/json; charset=utf-8", GreetingBody),
   Response(200, "OK", "text/plain", EmptyBody),
   Response(200, "OK", "none", EmptyBody)}

\* contentType?.includes(part), for the content types the model draws from.
Includes(contentType, part) ==
  \/ contentType = part
  \/ contentType = "application/json; charset=utf-8" /\ part = "application/json"
  \/ contentType = "text/plain; charset=utf-8" /\ part = "text/plain"

\* response.json(): the parsed body, or the parser's error for a body that
\* is not JSON text.
ResponseJSON(response) ==
  IF response.body.tokens = <<>> THEN Thrown("SyntaxError", "none")
  ELSE Returned(JSONParse(response.body.tokens))

\* response.text(): the body as a string.
ResponseText(response) == Returned(Str(response.body.text))

\* A makeRequest that falls back to the body text for any other content type.
makeRequestResponseFallback(response) ==
  IF ~ResponseOk(response)
    THEN [Thrown("TransportError", "none") EXCEPT !.cause = response]
  ELSE IF Includes(response.contentType, "application/json") THEN ResponseJSON(response)
  ELSE ResponseText(response)

\* makeRequest, from the response on.  The transport error's message has the
\* status and the status text, and the response is its cause.
makeRequestResponse(response) ==
  IF ~ResponseOk(response)
    THEN [Thrown("TransportError", "none") EXCEPT !.cause = response]
  ELSE IF Includes(response.contentType, "application/json") THEN ResponseJSON(response)
  ELSE IF Includes(response.contentType, "text/plain") THEN ResponseText(response)
  ELSE Thrown("UnsupportedContentTypeError", "none")

\* What one call of callFunc can produce.
CallOutcomes(t) ==
  IF t.callFunc = "func"
    THEN {Returned(r) : r \in Results} \cup {Thrown("FuncError", "none")}
    ELSE {makeRequestResponse(response) : response \in Responses}

(***************************************************************************)
(* Validation at invocation time.                                          *)
(***************************************************************************)
\* A validateInput that collects the errors and forgets to throw.
validateInputNoThrow(t, input) == NoOutcome

\* ToolClass.validateInput / basicAjvValidate on the input side: the error
\* thrown, or NoOutcome when the input passes.
validateInput(t, input) ==
  IF Conforms(t.config.inputSchema, input) THEN NoOutcome
  ELSE IF t.impl = "typebox"
    THEN ValidationError(SpreadAfterFirst(Errors(t.config.inputSchema, input)), "input")
  ELSE ValidationError(AjvErrors(t.config.inputSchema, input), "none")

\* ToolClass.validateResult / basicAjvValidate on the result side.  The
\* typebox method reads this.compiledResultSchema, which the constructor
\* leaves undefined when validateResult is false.
validateResult(t, result) ==
  IF t.impl = "typebox" /\ ~t.compiledOut THEN Thrown("TypeError", "none")
  ELSE IF Conforms(t.config.resultSchema, result) THEN Returned(result)
  ELSE IF t.impl = "typebox"
    THEN ValidationError(SpreadAfterFirst(Errors(t.config.resultSchema, result)), "result")
  ELSE ValidationError(AjvErrors(t.config.resultSchema, result), "none")

(***************************************************************************)
(* invoke(input, context, options), one slot per invocation.               *)
(***************************************************************************)
\* options: omitted, {}, {cache: false}, {cache: <a store>}.
Options == {"omitted", "empty", "nocache", "ext"}

\* The tool instances an invocation can be made on.
Instances == {1, 2}

\* The contexts a caller passes: none, an empty one, one with a property.
Contexts == {Undefined, Obj(<<>>), Obj(<<Field("user", "str", "u1")>>)}

Idle ==
  [pc |-> "idle", inst |-> 1, req |-> NoRequest, resp |-> NoResponse, ctx |-> Undefined, args |-> <<>>,
   input |-> Undefined, opt |-> "omitted", caching |-> FALSE,
   key |-> NoKey, store |-> "none", populated |-> FALSE, result |-> Undefined,
   out |-> NoOutcome, nGet |-> 0, nSet |-> 0, nCall |-> 0, nCheckIn |-> 0,
   nCheckOut |-> 0, after |-> {}]

Done(slot, outcome) == [slot EXCEPT !.pc = "done", !.out = outcome]

\* A cache decision that does not look at options.cache.
CachingAppliesAnyOption(d, opt) == d.cache # 0 /\ d.intents = "resource"

\* The cache decision of invoke.
CachingAppliesTypebox(d, opt) ==
  opt # "nocache" /\ d.cache # 0 /\ d.intents = "resource"

CachingAppliesAjv(d, opt) == opt # "nocache" /\ d.cache # 0

CachingApplies(t, opt) ==
  IF t.impl = "typebox" THEN CachingAppliesTypebox(t.config, opt)
  ELSE CachingAppliesAjv(t.config, opt)

\* An invoke that takes the tool's own store whatever options.cache holds.
resolveCacheOwnFirst(t, opt) ==
  IF t.impl = "ajv" THEN "memory" ELSE t.cacheField

\* The store invoke resolves: options.cache ?? this.cache (typebox),
\* resolveCache(options.cache) (ajv).
resolveCache(t, opt) ==
  IF opt = "ext" THEN "ext"
  ELSE IF t.impl = "ajv" THEN "memory"
  ELSE t.cacheField

\* The store object behind what invoke resolved, for a tool instance: the
\* field initialiser `cache = new Keyv()` runs once per instance.
StoreOf(t, inst, opt) ==
  IF resolveCache(t, opt) = "keyv" /\ inst = 2 THEN "keyv2" ELSE resolveCache(t, opt)

KeyOf(t, input) ==
  IF t.impl = "typebox" THEN keyFactory(t.config.name, input)
  ELSE DEFAULT_CACHE_KEY_FACTORY(t.config.name, input)

\* Does the input side get checked at all.
ChecksInput(t) == t.impl = "ajv" \/ t.compiledIn

\* invoke up to its first store or dispatch call.  A slot remembers in
\* `after` the invocations that had already settled when it was called.
Started(t, slot, input, opt) ==
  LET s0 == [slot EXCEPT !.input = input, !.opt = opt,
                         !.nCheckIn = IF ChecksInput(t) THEN 1 ELSE 0]
      bad == IF ChecksInput(t) THEN validateInput(t, input) ELSE NoOutcome
  IN IF bad.st = "err" THEN Done(s0, bad)
     ELSE IF ~CachingApplies(t, opt) THEN [s0 EXCEPT !.pc = "call"]
     ELSE IF opt = "omitted" THEN Done([s0 EXCEPT !.caching = TRUE], Thrown("TypeError", "none"))
     ELSE IF resolveCache(t, opt) = "number"
       THEN Done([s0 EXCEPT !.caching = TRUE, !.key = KeyOf(t, input)],
                 Thrown("TypeError", "none"))
     ELSE [s0 EXCEPT !.pc = "get", !.caching = TRUE, !.key = KeyOf(t, input),
                     !.store = StoreOf(t, slot.inst, opt)]

\* invoke(input, context, options) on tool instance inst.
InvokeWith(i, inst, input, ctx, opt) ==
  /\ tool.state = "built"
  /\ inv[i].pc = "idle"
  /\ \A j \in Slots : j < i => inv[j].pc # "idle"
  /\ inv' = [inv EXCEPT ![i] =
               Started(tool, [Idle EXCEPT !.inst = inst, !.ctx = ctx,
                                          !.after = {j \in Slots : inv[j].pc = "done"}],
                       input, opt)]
  /\ UNCHANGED <<tool, stores, now>>

\* invoke(input, undefined, options) on tool instance inst.
InvokeOn(i, inst, input, opt) == InvokeWith(i, inst, input, Undefined, opt)

\* invoke on the one tool built by Construct.
Invoke(i, input, opt) == InvokeOn(i, 1, input, opt)

\* An invoke that runs the result validation on the value it found cached.
GotValueRevalidated(slot, v) ==
  LET s1 == [slot EXCEPT !.nGet = @ + 1]
  IN IF Truthy(v) THEN Done([s1 EXCEPT !.nCheckOut = @ + 1], validateResult(tool, v))
     ELSE [s1 EXCEPT !.pc = "call"]

\* await cache.get(key), and the hit test `if (cachedResult)`.
GotValue(slot, v) ==
  LET s1 == [slot EXCEPT !.nGet = @ + 1]
  IN IF Truthy(v) THEN Done(s1, Returned(v)) ELSE [s1 EXCEPT !.pc = "call"]

CacheGet(i) ==
  /\ inv[i].pc = "get"
  /\ LET s == inv[i].store
     IN /\ inv' = [inv EXCEPT ![i] = GotValue(inv[i], StoreGet(s, stores[s], inv[i].key, now))]
        /\ stores' = [stores EXCEPT ![s] = StoreAfterGet(s, stores[s], inv[i].key, now)]
  /\ UNCHANGED <<tool, now>>

\* cache.get(key) rejects: nothing catches it, invoke rejects with it.
CacheGetFails(i) ==
  /\ inv[i].pc = "get"
  /\ CanFail(inv[i].store)
  /\ inv' = [inv EXCEPT ![i] = Done([inv[i] EXCEPT !.nGet = @ + 1], Thrown("StoreError", "get"))]
  /\ UNCHANGED <<tool, stores, now>>

\* Is the dispatch about to run the one whose result goes to the store.
BeforeSet(t, slot) == slot.caching /\ ~slot.populated

\* A dispatch that does not hand the context on.
CallArgsNoContext(slot) == <<slot.input, Undefined>>

\* The arguments of this.callFunc(input, context).
CallArgs(slot) == <<slot.input, slot.ctx>>

\* An invoke that returns the dispatch result without writing it to the store.
DispatchedNoWrite(t, slot, o) ==
  LET s1 == [slot EXCEPT !.nCall = @ + 1]
  IN IF o.st = "err" THEN Done(s1, o)
     ELSE Done([s1 EXCEPT !.result = o.val, !.nCheckOut = @ + 1], validateResult(t, o.val))

\* invoke after callFunc has settled with outcome o.
Dispatched(t, slot, o) ==
  LET s1 == [slot EXCEPT !.nCall = @ + 1, !.args = CallArgs(slot)]
  IN IF o.st = "err" THEN Done(s1, o)
     ELSE IF BeforeSet(t, slot) THEN [s1 EXCEPT !.pc = "set", !.result = o.val]
     ELSE Done([s1 EXCEPT !.result = o.val, !.nCheckOut = @ + 1], validateResult(t, o.val))

\* A dispatch step that caches the failure of callFunc under the key.
DispatchFromCachingFailure(i, responses) ==
  /\ inv[i].pc = "call"
  /\ \E o \in (IF tool.callFunc = "func" THEN CallOutcomes(tool)
                ELSE {makeRequestResponse(r) : r \in responses}) :
       /\ inv' = [inv EXCEPT ![i] = Dispatched(tool, inv[i], o)]
       /\ stores' = IF o.st = "err" /\ BeforeSet(tool, inv[i])
                      THEN [stores EXCEPT ![inv[i].store] =
                              StoreSet(@, inv[i].key, Null, tool.config.cache, now)]
                      ELSE stores
  /\ UNCHANGED <<tool, now>>

\* callFunc settles: the function with one of its outcomes, the endpoint
\* with what makeRequest makes of one of the given responses.
DispatchFrom(i, responses) ==
  /\ inv[i].pc = "call"
  /\ IF tool.callFunc = "func"
       THEN \E o \in CallOutcomes(tool) :
              inv' = [inv EXCEPT ![i] = Dispatched(tool, inv[i], o)]
       ELSE \E r \in responses :
              inv' = [inv EXCEPT ![i] =
                        Dispatched(tool,
                                   [inv[i] EXCEPT
                                      !.req = makeRequestRequest(tool.config.httpEndpoint,
                                                                 inv[i].input),
                                      !.resp = r],
                                   makeRequestResponse(r))]
  /\ UNCHANGED <<tool, stores, now>>

\* A dispatch that waits for every other dispatch in flight to settle.
DispatchSerialized(i) ==
  /\ \A j \in Slots \ {i} : inv[j].pc # "call"
  /\ DispatchFrom(i, Responses)

Dispatch(i) == DispatchFrom(i, Responses)

\* An invoke that dispatches again once the store is written.
PopulatedRedispatch(t, slot) ==
  [slot EXCEPT !.nSet = @ + 1, !.populated = TRUE, !.pc = "call"]

\* invoke once cache.set has written: it stays suspended on the await until
\* it is resumed (typebox); ajv falls through to its second, unconditional
\* callFunc.
Populated(t, slot) ==
  LET s1 == [slot EXCEPT !.nSet = @ + 1, !.populated = TRUE]
  IN IF t.impl = "typebox" THEN [s1 EXCEPT !.pc = "ret"] ELSE [s1 EXCEPT !.pc = "call"]

\* A store write after which the tool drops its TTL.
CacheSetDroppingTTL(i) ==
  /\ inv[i].pc = "set"
  /\ LET s == inv[i].store
     IN stores' = [stores EXCEPT ![s] =
                     StoreSet(stores[s], inv[i].key, inv[i].result, tool.config.cache, now)]
  /\ inv' = [inv EXCEPT ![i] = Populated(tool, inv[i])]
  /\ tool' = [tool EXCEPT !.config.cache = 0]
  /\ UNCHANGED now

\* await cache.set(key, result, this.config.cache).
CacheSet(i) ==
  /\ inv[i].pc = "set"
  /\ LET s == inv[i].store
     IN stores' = [stores EXCEPT ![s] =
                     StoreSet(stores[s], inv[i].key, inv[i].result, tool.config.cache, now)]
  /\ inv' = [inv EXCEPT ![i] = Populated(tool, inv[i])]
  /\ UNCHANGED <<tool, now>>

\* cache.set rejects: nothing catches it, invoke rejects with it.
CacheSetFails(i) ==
  /\ inv[i].pc = "set"
  /\ CanFail(inv[i].store)
  /\ inv' = [inv EXCEPT ![i] = Done([inv[i] EXCEPT !.nSet = @ + 1], Thrown("StoreError", "set"))]
  /\ UNCHANGED <<tool, stores, now>>

\* An invoke that dispatches again when the result fails validation.
ResumedRetrying(t, slot) ==
  IF validateResult(t, slot.result).st = "err"
    THEN [slot EXCEPT !.nCheckOut = @ + 1, !.pc = "call"]
    ELSE Done([slot EXCEPT !.nCheckOut = @ + 1], validateResult(t, slot.result))

\* invoke resumed after `await cache.set(...)`: it validates the result and
\* returns it.
Resumed(t, slot) ==
  Done([slot EXCEPT !.nCheckOut = @ + 1], validateResult(t, slot.result))

Resume(i) ==
  /\ inv[i].pc = "ret"
  /\ inv' = [inv EXCEPT ![i] = Resumed(tool, inv[i])]
  /\ UNCHANGED <<tool, stores, now>>

\* Time passes.  The clock is read only to stamp and to expire entries, so
\* it is started by the first write to a store.
Tick ==
  /\ now < MaxClock
  /\ \E s \in StoreIds : DOMAIN stores[s] # {}
  /\ now' = now + 1
  /\ UNCHANGED <<tool, stores, inv>>

InitOf(impl) ==
  /\ tool = [NoTool EXCEPT !.impl = impl]
  /\ stores = [s \in StoreIds |-> EmptyStore]
  /\ now = 0
  /\ inv = [i \in Slots |-> Idle]

Init == InitOf("typebox")
InitAjv == InitOf("ajv")

\* The steps the two implementations have in common.
NextAjv ==
  \/ \E viaMakeTool \in BOOLEAN, d \in Descriptors : Construct(viaMakeTool, d)
  \/ \E i \in Slots, input \in Inputs, opt \in Options : Invoke(i, input, opt)
  \/ \E i \in Slots : CacheGet(i)
  \/ \E i \in Slots : CacheGetFails(i)
  \/ \E i \in Slots : Dispatch(i)
  \/ \E i \in Slots : CacheSet(i)
  \/ \E i \in Slots : CacheSetFails(i)
  \/ Tick

\* The typebox invoke has one more step, its return after the store write:
\* the ajv invoke goes from the write to its second dispatch and returns
\* from there.
Next ==
  \/ NextAjv
  \/ \E i \in Slots : Resume(i)

Spec == Init /\ [][Next]_vars
SpecAjv == InitAjv /\ [][NextAjv]_vars

\* Two tool instances built by `new ToolClass(d)` from one resource
\* Descriptor with a TTL: equal in every field, each with the Keyv of its
\* own field initialiser.
TwinConfigs ==
  {d \in Configs("typebox", FALSE) :
     /\ d.intents = "resource" /\ d.cache # 0 /\ d.hasFunc /\ ~d.hasHttp
     /\ d.validateInput /\ d.validateResult}

InitTwins ==
  /\ tool \in {BuiltTool("typebox", FALSE, d) : d \in TwinConfigs}
  /\ stores = [s \in StoreIds |-> EmptyStore]
  /\ now = 0
  /\ inv = [i \in Slots |-> Idle]

NextTwins ==
  \/ \E i \in Slots, inst \in Instances, input \in Inputs, opt \in Options :
       InvokeOn(i, inst, input, opt)
  \/ \E i \in Slots : CacheGet(i)
  \/ \E i \in Slots : CacheGetFails(i)
  \/ \E i \in Slots : Dispatch(i)
  \/ \E i \in Slots : CacheSet(i)
  \/ \E i \in Slots : CacheSetFails(i)
  \/ \E i \in Slots : Resume(i)
  \/ Tick

SpecTwins == InitTwins /\ [][NextTwins]_vars

\* A tool dispatching to an HTTP endpoint (no cache), and the responses the
\* endpoint is let to give it: every status line with every Content-Type
\* and body.
HttpConfigs ==
  {d \in Configs("typebox", FALSE) :
     /\ d.intents = "action" /\ d.cache = 0 /\ ~d.hasFunc /\ d.hasHttp
     /\ d.validateInput /\ d.validateResult}

StatusLines ==
  {<<199, "">>, <<200, "OK">>, <<299, "">>, <<300, "Multiple Choices">>,
   <<404, "Not Found">>, <<500, "Internal Server Error">>}

ContentTypes ==
  {"application/json", "application/json; charset=utf-8", "text/plain",
   "text/plain; charset=utf-8", "text/html", "none"}

HttpResponses ==
  {Response(l[1], l[2], ct, b) : l \in StatusLines, ct \in ContentTypes, b \in Bodies}

InitHttp ==
  /\ tool \in {BuiltTool("typebox", FALSE, d) : d \in HttpConfigs}
  /\ stores = [s \in StoreIds |-> EmptyStore]
  /\ now = 0
  /\ inv = [i \in Slots |-> Idle]

NextHttp ==
  \/ \E i \in Slots, input \in Inputs : Invoke(i, input, "empty")
  \/ \E i \in Slots : DispatchFrom(i, HttpResponses)

SpecHttp == InitHttp /\ [][NextHttp]_vars

\* The greet example of the test programs: greetTool = makeTool(greetingFunc).
GreetConfig ==
  [name |-> "greet", intents |-> "unset", cache |-> 0, hasFunc |-> TRUE, hasHttp |-> FALSE,
   validateInput |-> TRUE, validateResult |-> TRUE,
   inputSchema |-> GreetInputSchema, resultSchema |-> GreetResultSchema,
   httpEndpoint |-> PlainEndpoint]

\* greetingFunc.func(input): `Hello, ${name}` and, for a truthy age,
\* `! You are ${age} years old.`.
greetingFunc(input, context) ==
  LET name == IF "name" \in Keys(input) THEN FieldOf(input, "name").s ELSE "undefined"
      age == IF "age" \in Keys(input) THEN Num(FieldOf(input, "age").s) ELSE Undefined
      greeting == "Hello, " \o name
                    \o (IF Truthy(age) THEN "! You are " \o age.s \o " years old." ELSE "")
  IN Obj(<<Field("greeting", "str", greeting)>>)

GreetInputs == Inputs \cup {InBob}

InitGreet ==
  /\ tool = BuiltTool("typebox", TRUE, GreetConfig)
  /\ stores = [s \in StoreIds |-> EmptyStore]
  /\ now = 0
  /\ inv = [i \in Slots |-> Idle]

\* await this.callFunc(input, context), callFunc being greetingFunc.func.
DispatchGreet(i) ==
  /\ inv[i].pc = "call"
  /\ inv' = [inv EXCEPT ![i] =
               Dispatched(tool, inv[i], Returned(greetingFunc(inv[i].input, inv[i].ctx)))]
  /\ UNCHANGED <<tool, stores, now>>

NextGreet ==
  \/ \E i \in Slots, input \in GreetInputs, ctx \in Contexts, opt \in Options :
       InvokeWith(i, 1, input, ctx, opt)
  \/ \E i \in Slots : DispatchGreet(i)

SpecGreet == InitGreet /\ [][NextGreet]_vars

\* What the event loop runs for invocation i once the promise it awaits has
\* settled, by returning or by failing.
Step(i) ==
  \/ CacheGet(i) \/ CacheGetFails(i) \/ Dispatch(i)
  \/ CacheSet(i) \/ CacheSetFails(i) \/ Resume(i)

\* The tools whose invocations have the whole pipeline before them: a
\* resource with a TTL, dispatching to a function or to an endpoint, with
\* either side validated or not.
LiveConfigs ==
  {d \in Configs("typebox", FALSE) :
     d.intents = "resource" /\ d.cache # 0 /\ d.hasFunc # d.hasHttp}

InitLive ==
  /\ tool \in {BuiltTool("typebox", FALSE, d) : d \in LiveConfigs}
  /\ stores = [s \in StoreIds |-> EmptyStore]
  /\ now = 0
  /\ inv = [i \in Slots |-> Idle]

NextLive ==
  \/ \E i \in Slots, input \in Inputs, opt \in Options : Invoke(i, input, opt)
  \/ \E i \in Slots : CacheGet(i)
  \/ \E i \in Slots : CacheGetFails(i)
  \/ \E i \in Slots : Dispatch(i)
  \/ \E i \in Slots : CacheSet(i)
  \/ \E i \in Slots : CacheSetFails(i)
  \/ \E i \in Slots : Resume(i)
  \/ Tick

\* Every store call and every dispatch call eventually returns or fails.
SpecLive == InitLive /\ [][NextLive]_vars /\ \A i \in Slots : WF_vars(Step(i))

\* Invocations next to one whose dispatch never returns.  invoke sets no
\* timeout and has no cancellation: a func whose promise never settles
\* (here: whenever it is handed a user in the context) leaves the
\* `await this.callFunc(...)` of that invocation pending for good.
StallContexts == {Undefined, Obj(<<Field("user", "str", "u1")>>)}
StallOptions == {"empty", "nocache"}

NeverSettles(slot) == slot.ctx # Undefined

DispatchSettles(i) == ~NeverSettles(inv[i]) /\ Dispatch(i)

\* What the event loop runs for invocation i once the promise it awaits has
\* settled.
StepStall(i) == CacheGet(i) \/ DispatchSettles(i) \/ CacheSet(i) \/ Resume(i)

NextStall ==
  \/ \E i \in Slots, inst \in Instances, input \in Inputs, ctx \in StallContexts,
        opt \in StallOptions :
       InvokeWith(i, inst, input, ctx, opt)
  \/ \E i \in Slots : CacheGet(i)
  \/ \E i \in Slots : DispatchSettles(i)
  \/ \E i \in Slots : CacheSet(i)
  \/ \E i \in Slots : Resume(i)
  \/ Tick

\* Every promise but the one that never settles does settle, and the event
\* loop then runs the continuation waiting on it.
SpecStall == InitTwins /\ [][NextStall]_vars /\ \A i \in Slots : WF_vars(StepStall(i))

\* The ajv tool of the greet example with a TTL, invoked with every greet
\* input: options = {} lets resolveCache take the MemoryCache.
AjvKeyConfigs ==
  {d \in Configs("ajv", FALSE) : d.cache # 0 /\ d.hasFunc /\ ~d.hasHttp}

InitAjvKeys ==
  /\ tool \in {BuiltTool("ajv", FALSE, d) : d \in AjvKeyConfigs}
  /\ stores = [s \in StoreIds |-> EmptyStore]
  /\ now = 0
  /\ inv = [i \in Slots |-> Idle]

NextAjvKeys ==
  \/ \E i \in Slots, input \in GreetInputs : Invoke(i, input, "empty")
  \/ \E i \in Slots : CacheGet(i)
  \/ \E i \in Slots : Dispatch(i)
  \/ \E i \in Slots : CacheSet(i)
  \/ Tick

SpecAjvKeys == InitAjvKeys /\ [][NextAjvKeys]_vars

\* Schema compilations one validation call performs: basicAjvValidate makes
\* a new Ajv and compiles the schema on every call; the typebox methods run
\* the TypeCheck the constructor compiled.
CompilesPerValidation(impl) == IF impl = "ajv" THEN 1 ELSE 0

\* Compilations performed by the validation calls of invocations 1..n.
RECURSIVE CompilesInInvokes(_)
CompilesInInvokes(n) ==
  IF n = 0 THEN 0
  ELSE CompilesInInvokes(n - 1)
         + (inv[n].nCheckIn + inv[n].nCheckOut) * CompilesPerValidation(tool.impl)

\* Compilations performed for the tool so far: by its constructor and by
\* its invocations.
CompileCount == tool.compiles + CompilesInInvokes(MaxInv)

\* Tools dispatching to an endpoint with each method setting and with a
\* url that has no query, one parameter, or parameters that an input field
\* will meet, once and twice.  Without input validation any value reaches
\* the dispatch: the greet objects, a string, null.
Endpoints ==
  {Endpoint(q, m) :
     q \in {<<>>, <<Param("lang", "en")>>,
            <<Param("name", "Zed"), Param("lang", "en"), Param("name", "Yan")>>},
     m \in {"none", "GET", "POST"}}

RequestConfigs ==
  {[d EXCEPT !.httpEndpoint = e] :
     d \in {c \in Configs("typebox", FALSE) :
              /\ c.intents = "action" /\ c.cache = 0 /\ ~c.hasFunc /\ c.hasHttp
              /\ c.validateResult},
     e \in Endpoints}

RequestInputs == GreetInputs \cup {Str("Alice"), Null}

InitRequest ==
  /\ tool \in {BuiltTool("typebox", FALSE, d) : d \in RequestConfigs}
  /\ stores = [s \in StoreIds |-> EmptyStore]
  /\ now = 0
  /\ inv = [i \in Slots |-> Idle]

NextRequest ==
  \/ \E i \in Slots, input \in RequestInputs : Invoke(i, input, "empty")
  \/ \E i \in Slots : Dispatch(i)

SpecRequest == InitRequest /\ [][NextRequest]_vars

\* The MemoryCache on its own: callers set, get and delete entries of the
\* process-wide map while time passes.  Each get is a call of its own slot,
\* which keeps the key asked for and the value returned.
MemoryKeys == {keyFactory("greet", InAlice), keyFactory("greet", InBob)}
MemoryValues == {ResGreeting, Str("Hello"), Null}
MemoryTTLs == 1..MaxTTL

MemorySet(key, value, ttl) ==
  /\ stores' = [stores EXCEPT !["memory"] = StoreSet(@, key, value, ttl, now)]
  /\ UNCHANGED <<tool, now, inv>>

MemoryGet(i, key) ==
  /\ inv[i].pc = "idle"
  /\ inv' = [inv EXCEPT ![i] =
               Done([Idle EXCEPT !.key = key, !.store = "memory", !.nGet = 1],
                    Returned(MemoryCacheGet(stores["memory"], key, now)))]
  /\ UNCHANGED <<tool, stores, now>>

MemoryDelete(key) ==
  /\ stores' = [stores EXCEPT !["memory"] = Remove(@, key)]
  /\ UNCHANGED <<tool, now, inv>>

NextMemory ==
  \/ \E key \in MemoryKeys, value \in MemoryValues, ttl \in MemoryTTLs :
       MemorySet(key, value, ttl)
  \/ \E i \in Slots, key \in MemoryKeys : MemoryGet(i, key)
  \/ \E key \in MemoryKeys : MemoryDelete(key)
  \/ Tick

SpecMemory == Init /\ [][NextMemory]_vars

(***************************************************************************)
(* Properties.                                                             *)
(***************************************************************************)
Active(i) == inv[i].pc # "idle"
Finished(i) == inv[i].pc = "done"
InputOk(i) == Conforms(tool.config.inputSchema, inv[i].input)
ResultOk(i) == Conforms(tool.config.resultSchema, inv[i].result)
\* The dispatch of invocation i has produced a result.
HasResult(i) == inv[i].result # Undefined
\* The store rejected the write of invocation i.
SetFailed(i) == inv[i].nSet = 1 /\ ~inv[i].populated
ExactlyOneEndpoint(d) == (d.hasFunc /\ ~d.hasHttp) \/ (~d.hasFunc /\ d.hasHttp)

\* C1: a Descriptor with both or neither of func/httpEndpoint never yields a
\* Tool (construction fails with a configuration error and nothing is ever
\* invoked); one with exactly one of them is built.
C1_ExclusiveEndpoint ==
  tool.state # "none" =>
    /\ tool.state = "built" <=> ExactlyOneEndpoint(tool.config)
    /\ tool.state = "failed" =>
         tool.error = "ConfigurationError" /\ \A i \in Slots : ~Active(i)

\* C2: with input validation enabled, an invocation whose input violates the
\* input schema ends with a ValidationError of side "input" having made no
\* store get, no store set and no dispatch.
C2_InvalidInputAborts ==
  \A i \in Slots :
    (Active(i) /\ tool.config.validateInput /\ ~InputOk(i)) =>
      /\ Finished(i)
      /\ inv[i].out.st = "err" /\ inv[i].out.err = "ValidationError"
      /\ inv[i].out.side = "input"
      /\ inv[i].nGet = 0 /\ inv[i].nSet = 0 /\ inv[i].nCall = 0
      /\ inv[i].store = "none"

C2_Witness ==
  \E i \in Slots :
    /\ tool.config.validateInput /\ inv[i].input = InEmpty
    /\ Finished(i) /\ inv[i].out.err = "ValidationError" /\ inv[i].out.side = "input"
    /\ tool.config.cache # 0 /\ tool.config.intents = "resource" /\ inv[i].opt = "ext"

\* Invocation i was called after invocation j had dispatched once and
\* returned for the same input, and the store holds under their key what j
\* returned, in an entry that has not reached its expiry.
CachedBy(j, i) ==
  LET st == stores[inv[i].store]
  IN /\ j \in inv[i].after /\ inv[j].out.st = "ok" /\ inv[j].nCall = 1 /\ inv[j].nSet = 1
     /\ inv[j].input = inv[i].input /\ inv[j].store = inv[i].store
     /\ inv[i].key \in DOMAIN st
     /\ st[inv[i].key].value = JSONStringify(inv[j].out.val)
     /\ now < st[inv[i].key].expiresAt

\* C3: when a resource tool with a TTL has returned r for x after one
\* dispatch, a second invoke(x) on the same store before the TTL elapses
\* returns r and does not dispatch, whatever r is.
C3_SecondInvokeHits ==
  [][\A i, j \in Slots :
       (inv[i].pc = "get" /\ inv'[i].pc # "get" /\ inv'[i].out.err # "StoreError"
          /\ CachedBy(j, i))
       => /\ inv'[i].pc = "done"
          /\ inv'[i].out = inv[j].out
          /\ inv'[i].nCall = 0]_vars

\* C4: a tool whose intent is not "resource" never reads or writes a store,
\* and every invocation of it that passes input validation dispatches.
C4_ActionNeverCached ==
  tool.config.intents # "resource" =>
    \A i \in Slots :
      /\ inv[i].nGet = 0 /\ inv[i].nSet = 0 /\ inv[i].pc \notin {"get", "set"}
      /\ (Finished(i) /\ InputOk(i)) => inv[i].nCall >= 1

\* C5: a store write that fails after a successful dispatch does not fail the
\* invocation: the computed result is still what invoke returns.
C5_SetFailureSwallowed ==
  \A i \in Slots :
    (Finished(i) /\ SetFailed(i)) =>
      /\ inv[i].out.err # "StoreError"
      /\ (tool.config.validateResult /\ ResultOk(i)) => inv[i].out = Returned(inv[i].result)

\* C6: a store read that fails is a miss: no invocation ends with the store's
\* read error.
C6_GetFailureIsMiss ==
  \A i \in Slots :
    ~(Finished(i) /\ inv[i].out.err = "StoreError" /\ inv[i].out.side = "get")

\* C7: invoke with options omitted, on a resource tool with a TTL, does not
\* fail on the options and looks the key up in the tool's default store.
C7_OmittedOptionsUseDefault ==
  \A i \in Slots :
    (Active(i) /\ inv[i].opt = "omitted" /\ InputOk(i)
       /\ tool.config.cache # 0 /\ tool.config.intents = "resource")
    => /\ inv[i].store = "keyv"
       /\ ~(Finished(i) /\ inv[i].nGet = 0)

\* C8: a tool built with validateResult: false returns every dispatch result
\* to the caller, conforming or not.
C8_ResultNeverChecked ==
  \A i \in Slots :
    (~tool.config.validateResult /\ Finished(i) /\ HasResult(i) /\ ~SetFailed(i))
      => inv[i].out = Returned(inv[i].result)

\* C9: a tool built with validateInput: false never checks the input: no
\* invocation ends with a ValidationError of side "input", and the cache
\* decision is taken for conforming and violating inputs alike.
C9_InputNeverChecked ==
  \A i \in Slots :
    (Active(i) /\ ~tool.config.validateInput) =>
      /\ inv[i].nCheckIn = 0
      /\ ~(inv[i].out.err = "ValidationError" /\ inv[i].out.side = "input")
      /\ inv[i].caching = CachingApplies(tool, inv[i].opt)
      /\ (Finished(i) /\ ~inv[i].caching) => inv[i].nCall = 1

C9_Witness ==
  \E i \in Slots :
    /\ ~tool.config.validateInput /\ inv[i].input = InEmpty
    /\ Finished(i) /\ inv[i].nCall = 1 /\ inv[i].out.st = "ok"

\* C10: with result validation enabled, an invocation whose dispatch result
\* violates the result schema fails with a ValidationError of side "result"
\* and does not return that result.
C10_InvalidResultRejected ==
  \A i \in Slots :
    (tool.config.validateResult /\ Finished(i) /\ HasResult(i) /\ ~ResultOk(i))
      => inv[i].out.err = "ValidationError" /\ inv[i].out.side = "result"

\* The value the store of invocation i gives for its key at this moment.
Looked(i) == StoreGet(inv[i].store, stores[inv[i].store], inv[i].key, now)
\* The store read of invocation i returns in this step.
GetReturns(i) ==
  inv[i].pc = "get" /\ inv'[i].pc # "get" /\ inv'[i].out.err # "StoreError"

HoldsExpired(i) ==
  LET st == stores[inv[i].store]
  IN inv[i].key \in DOMAIN st /\ now > st[inv[i].key].expiresAt

\* C12: a store read that finds an entry whose expiresAt has passed gives
\* what a read of a never-set key gives, whether the entry is still in the
\* map or not; the invocation takes it for a miss and its next step is the
\* dispatch of callFunc.
C12_ExpiredIsMiss ==
  [][\A i \in Slots :
       /\ (GetReturns(i) /\ HoldsExpired(i))
          => /\ Looked(i) = StoreGet(inv[i].store, EmptyStore, inv[i].key, now)
             /\ inv'[i].pc = "call" /\ inv'[i].nCall = 0
       /\ (inv[i].pc = "call" /\ inv'[i] # inv[i])
          => inv'[i].nCall = inv[i].nCall + 1]_vars

\* The second invocation has missed on the truthy entry the first one left,
\* which is still in the map with its expiry in the past.
C12_Witness ==
  \E i, j \in Slots :
    /\ tool.config.intents = "resource" /\ tool.config.cache # 0
    /\ j \in inv[i].after /\ inv[j].populated /\ inv[j].input = inv[i].input
    /\ inv[j].store = inv[i].store
    /\ inv[i].pc = "call" /\ inv[i].nGet = 1
    /\ inv[i].key \in DOMAIN stores[inv[i].store]
    /\ LET e == stores[inv[i].store][inv[i].key]
       IN e.expiresAt < now /\ Truthy(JSONParse(e.value))

\* Invocation i, for which caching applies, returns a dispatched result in
\* this step.
ReturnsMiss(i) ==
  /\ inv[i].caching /\ inv[i].pc # "done" /\ inv'[i].pc = "done"
  /\ inv'[i].out.st = "ok" /\ inv'[i].nCall >= 1

\* The store of invocation i holds what i returned, under the key of i's
\* tool name and input, with an expiry the tool's TTL after a past instant.
HoldsReturned(i) ==
  LET st == stores[inv[i].store]
  IN /\ inv[i].key = keyFactory(tool.config.name, inv[i].input)
     /\ inv[i].key \in DOMAIN st
     /\ st[inv[i].key].value = JSONStringify(inv[i].out.val)
     /\ st[inv[i].key].expiresAt \in tool.config.cache .. (now + tool.config.cache)

\* C13: whenever an invocation with caching applicable misses and returns r,
\* at that moment its store holds r under key(name, input) with the
\* Descriptor's TTL.
C13_WriteThrough ==
  [][\A i \in Slots : ReturnsMiss(i) => HoldsReturned(i)']_vars

\* No invocation that was still to settle when i was called works on the
\* key and store of i.
AloneOnKey(i) ==
  \A j \in Slots \ {i} :
    (Active(j) /\ inv[j].key = inv[i].key /\ inv[j].store = inv[i].store)
      => j \in inv[i].after

\* C13 (amended): an invocation with caching applicable that misses writes
\* its dispatch result under key(name, input) with the Descriptor's TTL
\* before it returns, and returns the value it wrote; at the moment it
\* returns the store holds that entry if no concurrent invocation has
\* worked on the same key of that store.
C13_WrittenBeforeReturn ==
  [][\A i \in Slots :
       /\ (inv[i].pc = "set" /\ inv'[i].populated)
          => /\ inv[i].key = keyFactory(tool.config.name, inv[i].input)
             /\ inv[i].key \in DOMAIN stores'[inv[i].store]
             /\ stores'[inv[i].store][inv[i].key] =
                  [value |-> JSONStringify(inv[i].result),
                   expiresAt |-> now + tool.config.cache]
       /\ ReturnsMiss(i)
          => /\ inv[i].populated /\ inv[i].nSet = 1
             /\ inv'[i].out.val = inv[i].result
             /\ AloneOnKey(i) => HoldsReturned(i)']_vars

C13_Witness ==
  \E i \in Slots :
    /\ Finished(i) /\ inv[i].caching /\ inv[i].out.st = "ok"
    /\ inv[i].nGet = 1 /\ inv[i].nCall = 1 /\ inv[i].populated
    /\ HoldsReturned(i)

\* C14: invocations of the tool whose inputs are structurally equal, whatever
\* the insertion order of their properties, look up and write the same key.
C14_KeyDeterminism ==
  \A i, j \in Slots :
    (inv[i].key # NoKey /\ inv[j].key # NoKey /\ StructEq(inv[i].input, inv[j].input))
      => inv[i].key = inv[j].key

\* C15: an invocation called with a store in options.cache reads and writes
\* that store only: none of its steps changes a default store, its store
\* read and its store write go to the passed store, and what it writes is
\* found there.
C15_PassedStoreOnly ==
  [][\A i \in Slots :
       (inv'[i] # inv[i] /\ inv'[i].opt = "ext")
       => /\ stores'["keyv"] = stores["keyv"]
          /\ stores'["memory"] = stores["memory"]
          /\ inv'[i].pc \in {"get", "set"} => inv'[i].store = "ext"
          /\ (inv[i].pc = "set" /\ inv'[i].populated)
               => /\ inv[i].key \in DOMAIN stores'["ext"]
                  /\ stores'["ext"][inv[i].key].value = JSONStringify(inv[i].result)]_vars

\* An invocation given a store missed, dispatched and wrote there, although
\* the default store held a live entry for its key from an earlier one.
C15_Witness ==
  \E i, j \in Slots :
    /\ inv[i].opt = "ext" /\ Finished(i) /\ inv[i].nGet = 1 /\ inv[i].nCall >= 1
    /\ inv[i].populated /\ inv[i].key \in DOMAIN stores["ext"]
    /\ j \in inv[i].after /\ inv[j].populated /\ inv[j].key = inv[i].key
    /\ inv[j].store \in {"keyv", "memory"}
    /\ inv[i].key \in DOMAIN stores[inv[j].store]
    /\ LET e == stores[inv[j].store][inv[i].key]
       IN now < e.expiresAt /\ Truthy(JSONParse(e.value))

\* C16: an invocation called with cache: false never reads or writes a
\* store, also for a resource tool with a TTL and with an entry stored for
\* its key: once its input has passed it dispatches callFunc, exactly once.
C16_CacheFalseSkipsStore ==
  \A i \in Slots :
    (Active(i) /\ inv[i].opt = "nocache") =>
      /\ ~inv[i].caching /\ inv[i].store = "none"
      /\ inv[i].nGet = 0 /\ inv[i].nSet = 0
      /\ inv[i].pc \in {"call", "done"}
      /\ inv[i].pc = "call" => inv[i].nCall = 0
      /\ Finished(i) =>
           IF inv[i].nCheckIn = 1 /\ ~InputOk(i) THEN inv[i].nCall = 0 ELSE inv[i].nCall = 1

\* A resource tool with a TTL, a live entry for the input in its default
\* store, and an invocation with cache: false that has dispatched all the same.
C16_Witness ==
  \E i, j \in Slots :
    /\ tool.config.intents = "resource" /\ tool.config.cache # 0
    /\ inv[i].opt = "nocache" /\ Finished(i) /\ inv[i].nCall = 1 /\ inv[i].out.st = "ok"
    /\ j \in inv[i].after /\ inv[j].populated /\ inv[j].input = inv[i].input
    /\ inv[j].key \in DOMAIN stores[inv[j].store]
    /\ LET e == stores[inv[j].store][inv[j].key]
       IN now < e.expiresAt /\ Truthy(JSONParse(e.value))

\* Invocation j, on another tool instance than i and through the default
\* store like i, had returned a truthy result for the input of i before i
\* was called, and its store holds that result in a live entry.
CachedByTwin(j, i) ==
  /\ j \in inv[i].after /\ inv[j].inst # inv[i].inst
  /\ inv[i].opt = "empty" /\ inv[j].opt = "empty"
  /\ inv[j].input = inv[i].input
  /\ inv[j].populated /\ inv[j].out.st = "ok" /\ Truthy(inv[j].out.val)
  /\ inv[j].key \in DOMAIN stores[inv[j].store]
  /\ stores[inv[j].store][inv[j].key].value = JSONStringify(inv[j].out.val)
  /\ now < stores[inv[j].store][inv[j].key].expiresAt

\* C17: the default store is shared by all tool instances: an invocation on
\* a second tool built from the same Descriptor hits on the entry an
\* invocation on the first tool has written through the default store.
C17_DefaultStoreShared ==
  [][\A i, j \in Slots :
       (GetReturns(i) /\ CachedByTwin(j, i))
       => /\ inv[i].store = inv[j].store
          /\ inv'[i].pc = "done" /\ inv'[i].out = inv[j].out /\ inv'[i].nCall = 0]_vars

\* C18: an invocation dispatches callFunc at most once: never again once it
\* has written the store, exactly once when it returns without a hit, and
\* not at all when it returns a hit.
C18_AtMostOneDispatch ==
  \A i \in Slots :
    /\ inv[i].nCall <= 1
    /\ inv[i].populated => inv[i].nCall = 1 /\ inv[i].pc \in {"ret", "done"}
    /\ (Finished(i) /\ HasResult(i)) => inv[i].nCall = 1
    /\ (Finished(i) /\ inv[i].out.st = "ok" /\ ~HasResult(i))
         => inv[i].nCall = 0 /\ inv[i].nGet = 1

\* The value a finished invocation's ValidationError is about, and its schema.
CheckedValue(i) == IF inv[i].out.side = "input" THEN inv[i].input ELSE inv[i].result
CheckedSchema(i) ==
  IF inv[i].out.side = "input" THEN tool.config.inputSchema ELSE tool.config.resultSchema
Range(seq) == {seq[n] : n \in 1..Len(seq)}

\* C19: the ValidationError an invocation ends with carries one violation
\* for each constraint its input (or result) violates: all of them, the
\* first included, and no more.
C19_AllViolationsCarried ==
  \A i \in Slots :
    (Finished(i) /\ inv[i].out.err = "ValidationError") =>
      /\ Len(inv[i].out.errors) = Cardinality(Violations(CheckedSchema(i), CheckedValue(i)))
      /\ Range(inv[i].out.errors) = Violations(CheckedSchema(i), CheckedValue(i))

\* C20: invocations with the same key are not coordinated.  Whatever the
\* other invocations are doing, one that reads no usable value goes on to
\* dispatch, one whose dispatch succeeds goes on to write, and its write
\* replaces what the store held under the key: the last write wins.
C20_NoDeduplication ==
  [][\A i \in Slots :
       /\ (GetReturns(i) /\ ~Truthy(Looked(i))) => inv'[i].pc = "call"
       /\ (inv[i].pc = "call" /\ inv[i].caching /\ ~inv[i].populated
             /\ inv'[i] # inv[i] /\ inv'[i].out.st # "err")
          => inv'[i].pc = "set"
       /\ (inv[i].pc = "set" /\ inv'[i].populated)
          => /\ inv[i].key \in DOMAIN stores'[inv[i].store]
             /\ stores'[inv[i].store][inv[i].key].value = JSONStringify(inv[i].result)]_vars

\* Two overlapping invocations with one input and one store have both read
\* before either wrote, both dispatched and both written, with different
\* results; both have finished and the store holds the result of j, which
\* wrote last (a later read would have hit on the truthy result of i).
C20_Witness ==
  \E i, j \in Slots :
    /\ i # j /\ i \notin inv[j].after /\ j \notin inv[i].after
    /\ tool.config.intents = "resource"
    /\ Finished(i) /\ Finished(j) /\ now = 0
    /\ inv[i].input = inv[j].input /\ inv[i].key = inv[j].key /\ inv[i].store = inv[j].store
    /\ inv[i].nGet = 1 /\ inv[j].nGet = 1 /\ inv[i].nCall = 1 /\ inv[j].nCall = 1
    /\ inv[i].populated /\ inv[j].populated
    /\ Truthy(inv[i].result) /\ inv[j].result # inv[i].result
    /\ stores[inv[i].store][inv[i].key].value = JSONStringify(inv[j].result)

\* C21: what an HTTP dispatch gives is decided by the response: a status
\* outside 200..299 is a transport error that carries the response with its
\* status and reason and leaves no result; with a status inside, a
\* Content-Type including application/json gives the body parsed as JSON,
\* else one including text/plain gives the body text, else (no Content-Type
\* included) an unsupported-content-type error and no result.
C21_ResponseDecides ==
  \A i \in Slots :
    (inv[i].resp # NoResponse /\ inv[i].nCall = 1) =>
      LET r == inv[i].resp
      IN IF ~ResponseOk(r)
           THEN /\ Finished(i) /\ ~HasResult(i)
                /\ inv[i].out.st = "err" /\ inv[i].out.err = "TransportError"
                /\ inv[i].out.cause.status = r.status
                /\ inv[i].out.cause.statusText = r.statusText
         ELSE IF Includes(r.contentType, "application/json")
           THEN IF r.body.tokens = <<>>
                  THEN Finished(i) /\ ~HasResult(i) /\ inv[i].out.err = "SyntaxError"
                  ELSE inv[i].result = JSONParse(r.body.tokens)
         ELSE IF Includes(r.contentType, "text/plain")
           THEN inv[i].result = Str(r.body.text)
         ELSE /\ Finished(i) /\ ~HasResult(i)
              /\ inv[i].out.st = "err" /\ inv[i].out.err = "UnsupportedContentTypeError"

\* One invocation got a 300 with a JSON body and failed on the transport,
\* the other a 299 without Content-Type and failed on the content type.
C21_Witness ==
  \E i, j \in Slots :
    /\ inv[i].resp = Response(300, "Multiple Choices", "application/json", GreetingBody)
    /\ inv[i].out.err = "TransportError"
    /\ inv[j].resp = Response(299, "", "none", GreetingBody)
    /\ inv[j].out.err = "UnsupportedContentTypeError"

\* Both validations of invocation i have passed.
BothPass(i) ==
  /\ inv[i].nCheckIn = 1 /\ InputOk(i)
  /\ HasResult(i) /\ inv[i].nCheckOut = 1 /\ tool.compiledOut /\ ResultOk(i)

\* C22: an invocation for which caching does not apply and whose input and
\* result both pass validation returns exactly the value callFunc produced,
\* having called it once, with the input and the context of the caller.
C22_ReturnsDispatchResult ==
  \A i \in Slots :
    (Finished(i) /\ ~inv[i].caching /\ BothPass(i)) =>
      /\ inv[i].out = Returned(inv[i].result)
      /\ inv[i].nCall = 1
      /\ inv[i].args = <<inv[i].input, inv[i].ctx>>

\* greetTool.invoke({name: "Alice", age: 30}, {user: "u1"}) and
\* greetTool.invoke({name: "Bob"}, {}) have returned their greetings.
C22_Witness ==
  \E i, j \in Slots :
    /\ Finished(i) /\ inv[i].input = InAlice /\ inv[i].ctx.f # <<>>
    /\ inv[i].out.st = "ok" /\ inv[i].args = <<InAlice, inv[i].ctx>>
    /\ FieldOf(inv[i].out.val, "greeting").s = "Hello, Alice! You are 30 years old."
    /\ Finished(j) /\ inv[j].input = InBob /\ inv[j].ctx = Obj(<<>>)
    /\ FieldOf(inv[j].out.val, "greeting").s = "Hello, Bob"

\* C23: with result validation enabled every entry in a store satisfies the
\* result schema, and no invocation returns a value that violates it.
C23_StoredValuesValid ==
  tool.config.validateResult =>
    /\ \A s \in StoreIds : \A k \in DOMAIN stores[s] :
         Conforms(tool.config.resultSchema, JSONParse(stores[s][k].value))
    /\ \A i \in Slots :
         (Finished(i) /\ inv[i].out.st = "ok")
           => Conforms(tool.config.resultSchema, inv[i].out.val)

\* C24: the `cache` property of a built tool, made by the constructor or by
\* makeTool, is a store, and a caching-applicable invocation whose options
\* carry no store works on it and does not end on a TypeError.
C24_MakeToolKeepsStore ==
  (tool.state = "built" /\ tool.impl = "typebox") =>
    /\ tool.cacheField = "keyv"
    /\ \A i \in Slots :
         (Active(i) /\ inv[i].opt = "empty" /\ inv[i].caching)
           => inv[i].store = "keyv" /\ inv[i].out.err # "TypeError"

\* The place of a step in the pipeline.
PcRank(pc) ==
  CASE pc = "idle" -> 0 [] pc = "get" -> 1 [] pc = "call" -> 2
    [] pc = "set" -> 3 [] pc = "ret" -> 4 [] OTHER -> 5

\* C25: the steps of an invocation are taken in one order and each at most
\* once: the input check at the call, before any store access; then the
\* store read, the dispatch, the store write; the result check last, in the
\* step that ends the invocation.
C25_LinearSteps ==
  [][\A i \in Slots :
       inv'[i] # inv[i] =>
         /\ PcRank(inv[i].pc) < PcRank(inv'[i].pc)
         /\ inv'[i].nCheckIn > inv[i].nCheckIn => inv[i].pc = "idle"
         /\ inv'[i].nGet > inv[i].nGet
              => /\ inv[i].nGet = 0 /\ inv[i].nCall = 0 /\ inv[i].nSet = 0
                 /\ inv[i].nCheckOut = 0
                 /\ tool.config.validateInput => inv[i].nCheckIn = 1
         /\ inv'[i].nCall > inv[i].nCall
              => /\ inv[i].nCall = 0 /\ inv[i].nSet = 0 /\ inv[i].nCheckOut = 0
                 /\ inv[i].caching => inv[i].nGet = 1
         /\ inv'[i].nSet > inv[i].nSet
              => inv[i].nSet = 0 /\ inv[i].nCall = 1 /\ inv[i].nCheckOut = 0
         /\ inv'[i].nCheckOut > inv[i].nCheckOut
              => /\ inv[i].nCheckOut = 0 /\ inv'[i].nCall = 1
                 /\ inv[i].caching => inv[i].nSet = 1
                 /\ inv'[i].pc = "done"]_vars

C25_Witness ==
  \E i \in Slots :
    /\ Finished(i) /\ inv[i].out.st = "ok" /\ inv[i].nCheckIn = 1 /\ inv[i].nGet = 1
    /\ inv[i].nCall = 1 /\ inv[i].nSet = 1 /\ inv[i].nCheckOut = 1

\* Invocation i has failed in its dispatch: callFunc rejected and nothing
\* after it ran.
DispatchFailed(i) ==
  /\ Finished(i) /\ inv[i].out.st = "err" /\ inv[i].nCall = 1
  /\ inv[i].nCheckOut = 0 /\ inv[i].nSet = 0

\* The same call again: same input and options on the same key and store.
SameCall(i, j) ==
  /\ inv[j].input = inv[i].input /\ inv[j].opt = inv[i].opt
  /\ inv[j].key = inv[i].key /\ inv[j].store = inv[i].store

\* No entry of a store is created or overwritten in this step, and every
\* key reads as it did.
StoresKept ==
  \A s \in StoreIds :
    /\ DOMAIN stores'[s] \subseteq DOMAIN stores[s]
    /\ \A k \in DOMAIN stores'[s] : stores'[s][k] = stores[s][k]
    /\ \A k \in DOMAIN stores[s] :
         StoreGet(s, stores'[s], k, now) = StoreGet(s, stores[s], k, now)

\* C26: when the dispatch fails the invocation ends with the error of
\* callFunc (the function's own, a TransportError for a non-2xx response, an
\* UnsupportedContentTypeError for a content type that is neither JSON nor
\* text), no step of that invocation creates or overwrites a store entry,
\* and the same call made after it finds no entry of its own making: it
\* misses and dispatches again.
C26_FailedDispatchLeavesStore ==
  /\ [][\A i \in Slots :
          /\ (inv'[i] # inv[i] /\ inv'[i].nSet = inv[i].nSet) => StoresKept
          /\ (inv[i].pc = "call" /\ inv'[i].out.st = "err"
                 /\ inv'[i].nCheckOut = inv[i].nCheckOut)
               => /\ DispatchFailed(i)' /\ ~inv'[i].populated /\ stores' = stores
                  /\ inv'[i].out = IF tool.callFunc = "func" THEN Thrown("FuncError", "none")
                                    ELSE makeRequestResponse(inv'[i].resp)]_vars
  /\ [](\A i, j \in Slots :
          (/\ DispatchFailed(i) /\ inv[i].caching /\ i \in inv[j].after /\ SameCall(i, j)
           /\ inv[j].nGet = 1 /\ inv[j].out.side # "get"
           /\ \A k \in Slots \ {i, j} : ~(inv[k].populated /\ inv[k].key = inv[j].key
                                              /\ inv[k].store = inv[j].store))
            => inv[j].nCall = 1 \/ inv[j].pc = "call")

C26_Witness ==
  \E i, j \in Slots :
    /\ DispatchFailed(i) /\ inv[i].caching /\ inv[i].nGet = 1 /\ i \in inv[j].after
    /\ SameCall(i, j) /\ inv[j].nGet = 1 /\ inv[j].nCall = 1

\* Invocation i is suspended in a dispatch that never returns.
Stalled(i) == inv[i].pc = "call" /\ NeverSettles(inv[i])

\* C27: an invocation suspended in a dispatch that never returns holds up
\* no other: every other invocation under way, on the same tool or on
\* another, on the same key or on another, goes through its steps and
\* finishes; the stalled invocation alone stays where it is.
C27_NoBlocking ==
  /\ \A i, j \in Slots :
       (Stalled(i) /\ Active(j) /\ ~NeverSettles(inv[j])) ~> Finished(j)
  /\ [][\A i \in Slots : Stalled(i) => Stalled(i)']_vars

C27_Witness ==
  \E i, j \in Slots :
    /\ Stalled(i) /\ j \notin inv[i].after /\ SameCall(i, j) /\ inv[j].inst = inv[i].inst
    /\ Finished(j) /\ inv[j].out.st = "ok" /\ inv[j].nGet = 1 /\ inv[j].nCall = 1
    /\ inv[j].nSet = 1 /\ inv[j].nCheckOut = 1

\* C28: an invocation that was called finishes, with a value (the one found
\* in the store, or the dispatch result after its validation) or with an
\* error, and makes at most one get, one dispatch and one set on the way.
C28_Terminates ==
  /\ \A i \in Slots : Active(i) ~> Finished(i)
  /\ [](\A i \in Slots :
          /\ inv[i].nGet <= 1 /\ inv[i].nCall <= 1 /\ inv[i].nSet <= 1
          /\ Finished(i)
               => \/ inv[i].out.st = "err"
                  \/ /\ inv[i].out.st = "ok" /\ inv[i].nGet = 1 /\ inv[i].nCall = 0
                     /\ Truthy(inv[i].out.val)
                  \/ /\ inv[i].out.st = "ok" /\ inv[i].nCall = 1 /\ inv[i].nCheckOut = 1
                     /\ inv[i].out.val = inv[i].result /\ ResultOk(i))
  /\ [][\A i \in Slots : Finished(i) => inv'[i] = inv[i]]_vars

C28_Witness ==
  \E i, j \in Slots :
    /\ i # j /\ Finished(i) /\ inv[i].out.st = "ok" /\ inv[i].nGet = 1 /\ inv[i].nCall = 0
    /\ Finished(j) /\ inv[j].out.st = "err" /\ inv[j].nCall = 1

\* Invocation i returned what it found in the store, without dispatching.
Hit(i) ==
  Finished(i) /\ inv[i].out.st = "ok" /\ inv[i].nGet = 1 /\ inv[i].nCall = 0

\* C29: cache keys separate distinct work: two invocations are given the
\* same key only under the same tool name and for structurally equal
\* inputs, and an invocation that hits has found the entry of an invocation
\* whose input was structurally equal to its own.
C29_KeysSeparate ==
  /\ \A i, j \in Slots :
       (inv[i].key # NoKey /\ inv[i].key = inv[j].key)
         => inv[i].key.ns = tool.config.name /\ StructEq(inv[i].input, inv[j].input)
  /\ \A i \in Slots :
       Hit(i) => \E j \in Slots \ {i} :
                   /\ inv[j].populated /\ inv[j].key = inv[i].key
                   /\ inv[j].store = inv[i].store /\ StructEq(inv[j].input, inv[i].input)

\* C30: schemas are compiled by the constructor only, once per side: the
\* number of compilations performed for a tool is what its construction
\* left, at most two, however many invocations have run.
C30_CompiledOnce ==
  tool.state = "built" => CompileCount = tool.compiles /\ CompileCount <= 2

\* The values of the parameters named k in a query, in order.
RECURSIVE ValuesOf(_, _)
ValuesOf(query, k) ==
  IF query = <<>> THEN <<>>
  ELSE (IF query[1].k = k THEN <<query[1].v>> ELSE <<>>) \o ValuesOf(Tail(query), k)

\* The request of invocation i carries every field of the input as the one
\* parameter of that name, and the url's other parameters as they were.
QueryMerged(i) ==
  LET url == tool.config.httpEndpoint.query
  IN /\ \A k \in Keys(inv[i].input) :
          ValuesOf(inv[i].req.query, k) = <<FieldOf(inv[i].input, k).s>>
     /\ \A k \in {url[n].k : n \in 1..Len(url)} \ Keys(inv[i].input) :
          ValuesOf(inv[i].req.query, k) = ValuesOf(url, k)
     /\ \A n \in 1..Len(inv[i].req.query) :
          inv[i].req.query[n].k \in Keys(inv[i].input) \cup {url[m].k : m \in 1..Len(url)}

\* Invocation i has dispatched to the endpoint.
Requested(i) == tool.callFunc = "http" /\ inv[i].nCall = 1

\* C31: the request of an HTTP dispatch follows from the method and the
\* input: with GET and an object input every field is in the query string,
\* in place of any parameter of that name, and there is no body and no
\* Content-Type; with POST the body is the JSON text of the input, with
\* Content-Type application/json, and the url is as given; with no method
\* given the method is GET for an object input and POST for any other.
C31_RequestBuilt ==
  \A i \in Slots :
    Requested(i) =>
      LET method == tool.config.httpEndpoint.method
          data == inv[i].input
          req == inv[i].req
      IN /\ (method = "GET" /\ data.t = "obj")
              => /\ req.method = "GET" /\ QueryMerged(i)
                 /\ req.body = <<>> /\ req.contentType = "none"
         /\ method = "POST"
              => /\ req.method = "POST" /\ req.body = JSONStringify(data)
                 /\ req.contentType = "application/json"
                 /\ req.query = tool.config.httpEndpoint.query
         /\ method = "none"
              => req.method = (IF data.t = "obj" THEN "GET" ELSE "POST")

\* The instants the clock can reach, and those an expiry can lie at.
Instants == 0..(MaxClock + MaxTTL)

\* What get(key) returns from the MemoryCache at instant t, before and after
\* the step.
MemoryReads(key, t) == MemoryCacheGet(stores["memory"], key, t)
MemoryReadsNext(key, t) == MemoryCacheGet(stores'["memory"], key, t)

\* The step leaves what get returns for every key but this one, at every
\* instant.
OtherKeysKept(key) ==
  \A k \in MemoryKeys \ {key} : \A t \in Instants : MemoryReadsNext(k, t) = MemoryReads(k, t)

\* C32: the MemoryCache follows the entry lifecycle: from set(k, v, ttl) on,
\* get(k) returns v at every instant before ttl has passed and null from
\* then on, whatever k held before (the last write wins, value and expiry);
\* from delete(k) on, get(k) returns null; neither changes what get returns
\* for another key; a get returns what the store holds then, and neither a
\* get nor the passing of time changes the store.
C32_MemoryLifecycle ==
  [][/\ \A key \in MemoryKeys, value \in MemoryValues, ttl \in MemoryTTLs :
          MemorySet(key, value, ttl)
            => /\ \A t \in Instants :
                    t >= now => MemoryReadsNext(key, t) = (IF t < now + ttl THEN value ELSE Null)
               /\ OtherKeysKept(key)
     /\ \A key \in MemoryKeys :
          MemoryDelete(key)
            => /\ \A t \in Instants : MemoryReadsNext(key, t) = Null
               /\ OtherKeysKept(key)
     /\ \A i \in Slots, key \in MemoryKeys :
          MemoryGet(i, key)
            => /\ inv'[i].out = Returned(MemoryReads(key, now))
               /\ \A k \in MemoryKeys : \A t \in Instants : MemoryReadsNext(k, t) = MemoryReads(k, t)
     /\ now' # now => stores' = stores]_vars

C32_Witness ==
  \E i, j \in Slots :
    /\ inv[i].store = "memory" /\ inv[j].store = "memory" /\ inv[i].key # inv[j].key
    /\ Finished(i) /\ inv[i].key \in DOMAIN stores["memory"]
    /\ stores["memory"][inv[i].key].expiresAt <= now /\ inv[i].out.val = Null
    /\ Finished(j) /\ inv[j].out.val = ResGreeting

\* The entry of key in store s is not after the step what it was before.
EntryChanged(s, key) ==
  \/ (key \in DOMAIN stores[s]) # (key \in DOMAIN stores'[s])
  \/ /\ key \in DOMAIN stores[s] /\ key \in DOMAIN stores'[s]
     /\ stores'[s][key] # stores[s][key]

\* C33: once built, a tool is changed by no step of an invocation: its
\* configuration, its compiled validators, its callFunc and its cache field
\* stay as construction left them; and an entry of a store changes only in
\* a step of an invocation that works on that store under that key.
C33_StatelessButStore ==
  [][tool.state = "built"
       => /\ tool' = tool
          /\ \A s \in StoreIds :
               \A key \in DOMAIN stores[s] \cup DOMAIN stores'[s] :
                 EntryChanged(s, key)
                   => \E i \in Slots :
                        inv'[i] # inv[i] /\ inv[i].store = s /\ inv[i].key = key]_vars

C33_Witness ==
  \E i, j \in Slots :
    /\ tool.state = "built" /\ tool.compiledIn /\ tool.compiledOut
    /\ Finished(i) /\ inv[i].populated /\ inv[i].out.st = "ok"
    /\ Finished(j) /\ inv[j].populated /\ inv[j].store = inv[i].store
    /\ inv[j].key # inv[i].key
    /\ {inv[i].key, inv[j].key} \subseteq DOMAIN stores[inv[i].store]

====
